---- MODULE Spec2Model ----
(***************************************************************************)
(* A model of the V3 Sovereign OS Streamlit applications:                  *)
(*   v3_command_center_v2.py  (pillars/shadows/goals/tasks, AI coaches),   *)
(*   v3_command_center.py, daily_operations_command.py, sovereign_os.py,   *)
(*   daily_operations_backup.py (file-backed trackers).                    *)
(* Each part of the program has its own group of variables and its own     *)
(* specification; a specification leaves the other groups untouched.       *)
(***************************************************************************)
EXTENDS Integers, Sequences, FiniteSets, TLC

VARIABLES
    \* ---- call_gemini_api / run_async_ai_call (v3_command_center_v2.py) ----
    g_pc,          \* "idle" | "request" | "backoff" | "done"
    g_attempt,     \* loop variable `attempt` of `for attempt in range(4)`
    g_requests,    \* number of requests.post calls made by the current call
    g_sleeps,      \* delays (seconds) of the asyncio.sleep calls completed so far
    g_delay,       \* delay of the asyncio.sleep in progress (0 when none)
    g_use_search,  \* argument use_search
    g_contents,    \* payload["contents"]: the roles built from `history`
    g_result,      \* value handed back to the caller of run_async_ai_call
    g_last         \* the last requests.post of the call: what came back and
                   \* the except clause that caught it ("none": nothing raised)

gemVars == <<g_pc, g_attempt, g_requests, g_sleeps, g_delay, g_use_search,
             g_contents, g_result, g_last>>

VARIABLES
    \* ---- load_data (v3_command_center_v2.py), called on its own ----
    ld_pc,         \* "called" | "returned"
    ld_default,    \* argument default_data
    ld_file,       \* content of the file `filename` when the call starts
    ld_file_after, \* content of the file when the call has returned
    ld_result      \* the returned dictionary

loadVars == <<ld_pc, ld_default, ld_file, ld_file_after, ld_result>>

VARIABLES
    \* ---- v3_command_center_v2.py: files and st.session_state ----
    files,            \* file name -> content of the JSON file
    pillars_data,     \* st.session_state.pillars_data
    shadows_data,     \* st.session_state.shadows_data
    goals_data,       \* st.session_state.goals_data
    tasks_data,       \* st.session_state.tasks_data
    chat,             \* history key -> st.session_state[history_key]
    page,             \* st.session_state.page
    unsaved_changes,  \* st.session_state.unsaved_changes
    kpi,              \* the three top metrics render_dashboard shows
    chroma_client,    \* st.session_state.chroma_client is a client (not None)
    collections,      \* vector store: collection name -> documents
    rag_log,          \* external calls made by the last RAG submission
    clock,            \* time.time(), in ticks
    edits,            \* number of edits, chat submissions and ingestions so far
    new_session,      \* the session has just been started and nothing was done in it
    saved             \* session data as of the last complete save_all_data

appVars == <<files, pillars_data, shadows_data, goals_data, tasks_data, chat,
             page, unsaved_changes, kpi, chroma_client, collections, rag_log, clock, edits,
             new_session, saved>>

\* daily_operations_backup: the operations of the day
VARIABLES
    comp,             \* st.session_state["comp_<op_id>"], False when not set
    ops_file,         \* content of data/operational_state.json
    ops_rows          \* number of rows of data/daily_ops_log.csv

opsVars == <<comp, ops_file, ops_rows>>

\* The data directory shared by the file-based apps
VARIABLES
    data_dir,         \* content of each file of data/
    starts,           \* number of start-ups made so far
    last_start,       \* the last start-up: the app and the day of the run
    writes,           \* number of form submissions and deletions made so far
    style_css,        \* content of style.css next to v3_command_center_v2.py
    css_shown         \* the style sheet the last run of load_css injected

startVars == <<data_dir, starts, last_start, writes, style_css, css_shown>>

\* sovereign_os: data/daily_metrics.csv and the browser sessions that log into it
VARIABLES
    metrics_csv,      \* the rows of the file below its header, or Unreadable
    form_pc,          \* session -> "idle" | "concat": where its submit handler is
    form_df,          \* session -> df_daily of its submit handler
    form_logged,      \* the rows whose df_daily.to_csv has returned
    v3_progress       \* the value of the last calculate_v3_progress()

csvVars == <<metrics_csv, form_pc, form_df, form_logged, v3_progress>>

\* daily_operations_command: the outreach tracker
VARIABLES
    outreach_csv,     \* the rows of data/outreach.csv below its header
    out_today,            \* date.today(), as a day number
    outreach_kpi      \* the "Outreach Performance" metrics of the last run

outVars == <<outreach_csv, out_today, outreach_kpi>>

vars == <<gemVars, loadVars, appVars, opsVars, startVars, csvVars, outVars>>

-----------------------------------------------------------------------------
(***************************************************************************)
(* JSON files and load_data                                                *)
(***************************************************************************)

\* What json.dump writes, as a tree: a JSON value carries its type.
JStr(s) == [t |-> "string", v |-> s]
JNum(n) == [t |-> "number", v |-> n]
JBool(b) == [t |-> "bool", v |-> b]
JArr(seq) == [t |-> "array", v |-> seq]
JObj(f) == [t |-> "object", v |-> f]

\* A file that does not exist, and a file whose text is not JSON.
FileMissing == [t |-> "missing"]
FileInvalid == [t |-> "invalid"]

\* json.load: object -> dict, array -> list, number/string/bool -> themselves.
RECURSIVE JsonToPy(_)
JsonToPy(j) ==
    CASE j.t = "object" -> [k \in DOMAIN j.v |-> JsonToPy(j.v[k])]
      [] j.t = "array" -> [i \in DOMAIN j.v |-> JsonToPy(j.v[i])]
      [] OTHER -> j.v

\* json.dump of a dictionary of integers (the dictionaries of the stand-alone
\* load_data calls below).
EncIntDict(d) == JObj([k \in DOMAIN d |-> JNum(d[k])])

\* line 123: data.update(file_data)
DictUpdate_keepExisting(data, file_data) ==
    [k \in DOMAIN data \cup DOMAIN file_data |->
        IF k \in DOMAIN data THEN data[k] ELSE file_data[k]]
DictUpdate(data, file_data) ==
    [k \in DOMAIN data \cup DOMAIN file_data |->
        IF k \in DOMAIN file_data THEN file_data[k] ELSE data[k]]

\* lines 129-131: every key of default_data is present in the final data
EnsureKeys(data, default_data) ==
    [k \in DOMAIN data \cup DOMAIN default_data |->
        IF k \in DOMAIN data THEN data[k] ELSE default_data[k]]

\* load_data, lines 108-146: the returned dictionary.
LoadData(file, default_data) ==
    IF file.t = "missing" THEN default_data
    ELSE IF file.t = "invalid" THEN default_data
    ELSE LET data == IF file.t = "object"
                     THEN DictUpdate(default_data, JsonToPy(file))
                     ELSE default_data
         IN  EnsureKeys(data, default_data)

\* load_data, lines 134-142: a missing file is created with the defaults
\* (default_json is json.dump(default_data)), unless the write fails.
FileAfterLoad(file, default_json, writable) ==
    IF file.t = "missing" /\ writable THEN default_json ELSE file

\* Inputs of the stand-alone calls.
MaxLoadValue == 2
LoadKeys == {"a", "b", "c"}
LoadDefaults ==
    UNION {[K -> 1..MaxLoadValue] : K \in SUBSET {"a", "b"}}
LoadFiles ==
    {FileMissing, FileInvalid, JArr(<<JNum(7)>>), JNum(7), JStr("x")}
    \cup {EncIntDict(d) :
             d \in UNION {[K -> 11..(10 + MaxLoadValue)] : K \in SUBSET LoadKeys}}

load_data(writable) ==
    /\ ld_pc = "called"
    /\ ld_pc' = "returned"
    /\ ld_result' = LoadData(ld_file, ld_default)
    /\ ld_file_after' = FileAfterLoad(ld_file, EncIntDict(ld_default), writable)
    /\ UNCHANGED <<ld_default, ld_file>>

LoadIdle ==
    /\ ld_pc = "returned"
    /\ ld_default = <<>>
    /\ ld_file = FileMissing
    /\ ld_file_after = FileMissing
    /\ ld_result = <<>>

-----------------------------------------------------------------------------
(***************************************************************************)
(* call_gemini_api and run_async_ai_call                                   *)
(***************************************************************************)

\* Longest chat history handed to the call in the model.
MaxHistoryLen == 2

\* `for attempt in range(4)`
MaxAttempts == 4

\* A Python dict is a function from its keys; NoResult stands for "nothing
\* returned yet", Raised(e) for an exception that left the function.
NoResult == [none |-> TRUE]
Raised(e) == [exc |-> e]

\* Histories: sequences of messages, a message reduced to its is_user flag.
Histories == UNION {[1..n -> BOOLEAN] : n \in 0..MaxHistoryLen}

\* lines 812-820: role = "user" if message.get('is_user') else "model"
BuildContents(history) ==
    [i \in DOMAIN history |-> IF history[i] THEN "user" ELSE "model"]

\* line 804
KeyMissingResult == [text |-> "api_key_not_found", sources |-> <<>>]
\* line 806
SecretsErrorResult == [text |-> "error_loading_secrets", sources |-> <<>>]
\* line 863
NoTextResult == [text |-> "no_valid_text_response", sources |-> <<>>]
\* lines 870-871
RetriesFailedResult == [text |-> "failed_after_multiple_retries", sources |-> <<>>]
\* lines 872-874
UnexpectedResult_raise == Raised("Exception")
UnexpectedResult == [text |-> "unexpected_error", sources |-> <<>>]
\* line 876
MaxRetryResult == [text |-> "maximum_retry_attempts_reached", sources |-> <<>>]
\* line 893
WrapperErrorResult == [text |-> "error_executing_async_wrapper", sources |-> <<>>]

\* lines 845-861: a candidate with text; grounded = the reply carries
\* groundingAttributions with uri and title.
ReplyResult(use_search, grounded) ==
    IF use_search /\ grounded
    THEN [text |-> "reply_with_sources_footer", sources |-> <<"[title](uri)">>]
    ELSE [text |-> "reply", sources |-> <<>>]

\* line 867: delay = 2 ** attempt
BackoffDelay_linear(attempt) == 2 * attempt
BackoffDelay(attempt) == 2 ^ attempt

\* line 866: if attempt < 3
MayRetry_always(attempt) == attempt < MaxAttempts
MayRetry(attempt) == attempt < 3

SecretsOutcomes == {"present", "KeyError", "Exception"}
\* What one requests.post can lead to.  "RequestException": no reply, or a
\* reply that raise_for_status rejects.  The others are replies that pass the
\* status check: a body with text (with or without grounding), a body
\* without text, a body that is not JSON ("invalid_json": response.json()
\* raises), and "Exception": any other failure while the reply is processed.
HttpOutcomes == {"RequestException", "text", "text_grounded", "no_text",
                 "invalid_json", "Exception"}

\* The except clause that catches the error of response.json() on a body that
\* is not JSON.  It depends on the installed requests: from 2.27 on the error
\* is requests.exceptions.JSONDecodeError, a RequestException; before, it is
\* a plain ValueError.
JsonErrorHandlers == {"RequestException", "Exception"}

\* run_async_ai_call entered; call_gemini_api runs up to its first request.
\* loop_running: asyncio.get_running_loop() succeeded, so run_until_complete
\* raises RuntimeError, which the wrapper turns into its error dictionary.
run_async_ai_call(history, use_search, secrets, loop_running) ==
    /\ g_pc = "idle"
    /\ g_use_search' = use_search
    /\ g_attempt' = 0
    /\ g_requests' = 0
    /\ g_sleeps' = <<>>
    /\ g_delay' = 0
    /\ g_last' = [outcome |-> "none", handler |-> "none"]
    /\ IF loop_running
       THEN /\ g_contents' = <<>>
            /\ g_result' = WrapperErrorResult
            /\ g_pc' = "done"
       ELSE IF secrets = "KeyError"
       THEN /\ g_contents' = <<>>
            /\ g_result' = KeyMissingResult
            /\ g_pc' = "done"
       ELSE IF secrets = "Exception"
       THEN /\ g_contents' = <<>>
            /\ g_result' = SecretsErrorResult
            /\ g_pc' = "done"
       ELSE /\ g_contents' = BuildContents(history)
            /\ g_result' = NoResult
            /\ g_pc' = "request"

\* One pass of the loop body: requests.post and what follows it.  handler is
\* the except clause that catches what the pass raises.
http_attempt(outcome, handler) ==
    /\ g_pc = "request"
    /\ handler = CASE outcome = "RequestException" -> "RequestException"
                   [] outcome = "Exception" -> "Exception"
                   [] outcome = "invalid_json" -> handler
                   [] OTHER -> "none"
    /\ outcome = "invalid_json" => handler \in JsonErrorHandlers
    /\ g_requests' = g_requests + 1
    /\ g_last' = [outcome |-> outcome, handler |-> handler]
    /\ UNCHANGED <<g_attempt, g_sleeps, g_use_search, g_contents>>
    /\ CASE handler = "RequestException" ->
              IF MayRetry(g_attempt)
              THEN /\ g_delay' = BackoffDelay(g_attempt)
                   /\ g_pc' = "backoff"
                   /\ g_result' = g_result
              ELSE /\ g_delay' = 0
                   /\ g_pc' = "done"
                   /\ g_result' = RetriesFailedResult
         [] handler = "Exception" ->
              /\ g_delay' = 0
              /\ g_pc' = "done"
              /\ g_result' = UnexpectedResult
         [] outcome = "text" ->
              /\ g_delay' = 0
              /\ g_pc' = "done"
              /\ g_result' = ReplyResult(g_use_search, FALSE)
         [] outcome = "text_grounded" ->
              /\ g_delay' = 0
              /\ g_pc' = "done"
              /\ g_result' = ReplyResult(g_use_search, TRUE)
         [] outcome = "no_text" ->
              /\ g_delay' = 0
              /\ g_pc' = "done"
              /\ g_result' = NoTextResult

\* asyncio.sleep(delay) returns and the loop moves to the next attempt; the
\* loop running out (attempt = 4) falls through to line 876.
backoff_elapsed ==
    /\ g_pc = "backoff"
    /\ g_sleeps' = Append(g_sleeps, g_delay)
    /\ g_delay' = 0
    /\ g_attempt' = g_attempt + 1
    /\ IF g_attempt + 1 < MaxAttempts
       THEN g_pc' = "request" /\ g_result' = g_result
       ELSE g_pc' = "done" /\ g_result' = MaxRetryResult
    /\ UNCHANGED <<g_requests, g_use_search, g_contents, g_last>>

\* The caller takes the dictionary (ai_response_dict) and the call is over.
ai_call_returned ==
    /\ g_pc = "done"
    /\ g_pc' = "idle"
    /\ g_result' = NoResult
    /\ g_attempt' = 0
    /\ g_requests' = 0
    /\ g_sleeps' = <<>>
    /\ g_delay' = 0
    /\ g_contents' = <<>>
    /\ g_last' = [outcome |-> "none", handler |-> "none"]
    /\ UNCHANGED g_use_search

GeminiIdle ==
    /\ g_pc = "idle"
    /\ g_attempt = 0
    /\ g_requests = 0
    /\ g_sleeps = <<>>
    /\ g_delay = 0
    /\ g_use_search = FALSE
    /\ g_contents = <<>>
    /\ g_result = NoResult
    /\ g_last = [outcome |-> "none", handler |-> "none"]

-----------------------------------------------------------------------------
(***************************************************************************)
(* v3_command_center_v2: session state, JSON files, pages                  *)
(***************************************************************************)

\* Budgets of one model run.
MaxEdits == 1

\* st.slider(..., 0, 100, ...)
SliderMin == 0
SliderMax == 100

Pages == {"Dashboard", "Pillars & Shadows", "Goals", "Tasks", "V3 Advisor",
          "Super AI", "BOL Academy", "Business Coach", "Health Coach",
          "Energy & Somatic Coach", "Ingest Data", "Settings"}

HistoryKeys == {"v3_advisor_history", "super_ai_history", "bol_academy_history",
                "business_coach_history", "health_coach_history",
                "energy_somatic_history"}

HistoryFile(k) ==
    CASE k = "v3_advisor_history" -> "v3_advisor_history.json"
      [] k = "super_ai_history" -> "super_ai_history.json"
      [] k = "bol_academy_history" -> "bol_academy_history.json"
      [] k = "business_coach_history" -> "business_coach_history.json"
      [] k = "health_coach_history" -> "health_coach_history.json"
      [] k = "energy_somatic_history" -> "energy_somatic_history.json"

\* The order in which save_all_data writes the files, lines 153-179.
SaveOrder == <<"pillars.json", "shadows.json", "goals_detailed.json", "tasks.json",
               "v3_advisor_history.json", "super_ai_history.json",
               "bol_academy_history.json", "business_coach_history.json",
               "health_coach_history.json", "energy_somatic_history.json">>

FileNames == {SaveOrder[i] : i \in DOMAIN SaveOrder}

\* Defaults of initialize_session_state, lines 200-261.
DefaultPillars ==
    << [name |-> "Health", score |-> 60, focus |-> "Optimize physical and mental energy."],
       [name |-> "Wealth", score |-> 45, focus |-> "Build autonomous income streams."],
       [name |-> "Relationship", score |-> 75, focus |-> "Deepen connection with core network."],
       [name |-> "Sovereignty", score |-> 55, focus |-> "Increase personal agency and self-reliance."] >>

DefaultShadows ==
    << [name |-> "Procrastination", score |-> 80, focus |-> "Immediate action bias."],
       [name |-> "Self-Doubt", score |-> 30, focus |-> "Confidence in execution."] >>

DefaultHistory(k) ==
    << [role |-> "model", text |-> "Welcome: " \o k, is_user |-> FALSE] >>

\* json.dump of the records held in session state.
EncPillar(p) ==
    JObj([name |-> JStr(p.name), score |-> JNum(p.score), focus |-> JStr(p.focus)])
EncGoal(g) ==
    JObj([id |-> JStr(g.id), name |-> JStr(g.name), pillar |-> JStr(g.pillar),
          progress |-> JNum(g.progress), deadline |-> JStr(g.deadline)])
EncTask(t) ==
    JObj([id |-> JStr(t.id), name |-> JStr(t.name), pillar |-> JStr(t.pillar),
          priority |-> JStr(t.priority), due |-> JStr(t.due),
          completed |-> JBool(t.completed)])
EncMessage(m) ==
    JObj([role |-> JStr(m.role), text |-> JStr(m.text), is_user |-> JBool(m.is_user)])


\* The JSON each file gets from the data (pd, sd, gd, td: the four
\* dictionaries; ch: the chat histories).
ShadowsJson_pillars(pd, sd) ==
    JObj([shadows |-> JArr([i \in DOMAIN pd["pillars"] |-> EncPillar(pd["pillars"][i])])])
ShadowsJson(pd, sd) ==
    JObj([shadows |-> JArr([i \in DOMAIN sd["shadows"] |-> EncPillar(sd["shadows"][i])])])

\* save_all_data, lines 153-179: what is written to file f.
SavedContent(f, pd, sd, gd, td, ch) ==
    CASE f = "pillars.json" ->
             JObj([pillars |-> JArr([i \in DOMAIN pd["pillars"] |->
                                        EncPillar(pd["pillars"][i])])])
      [] f = "shadows.json" -> ShadowsJson(pd, sd)
      [] f = "goals_detailed.json" ->
             JObj([goals |-> JArr([i \in DOMAIN gd["goals"] |->
                                      EncGoal(gd["goals"][i])])])
      [] f = "tasks.json" ->
             JObj([tasks |-> JArr([i \in DOMAIN td["tasks"] |->
                                      EncTask(td["tasks"][i])])])
      [] OTHER ->
             LET h == ch[CHOOSE k \in HistoryKeys : HistoryFile(k) = f]
             IN  JObj([history |-> JArr([i \in DOMAIN h |-> EncMessage(h[i])])])

\* load_data's default_data for file f, as json.dump writes it (line 139).
DefaultJson(f) ==
    SavedContent(f, [pillars |-> DefaultPillars], [shadows |-> DefaultShadows],
                 [goals |-> <<>>], [tasks |-> <<>>],
                 [k \in HistoryKeys |-> DefaultHistory(k)])

\* initialize_session_state, lines 200-261: session values read from disk fs.
Loaded(fs) ==
    [pillars_data |-> LoadData(fs["pillars.json"], [pillars |-> DefaultPillars]),
     shadows_data |-> LoadData(fs["shadows.json"], [shadows |-> DefaultShadows]),
     goals_data |-> LoadData(fs["goals_detailed.json"], [goals |-> <<>>]),
     tasks_data |-> LoadData(fs["tasks.json"], [tasks |-> <<>>]),
     chat |-> [k \in HistoryKeys |->
                  LoadData(fs[HistoryFile(k)],
                           [history |-> DefaultHistory(k)])["history"]]]
FilesAfterInit(fs, writable) ==
    [f \in FileNames |-> FileAfterLoad(fs[f], DefaultJson(f), writable)]

\* The data of a session, as one value.
SessionData(pd, sd, gd, td, ch) ==
    [pillars |-> pd["pillars"], shadows |-> sd["shadows"], goals |-> gd["goals"],
     tasks |-> td["tasks"], chat |-> ch]
NothingSaved == [none |-> TRUE]

RECURSIVE SeqSum(_)
SeqSum(seq) == IF seq = <<>> THEN 0 ELSE seq[1] + SeqSum(Tail(seq))

\* sum(xs) / len(xs) if xs else 0, as the fraction <<numerator, denominator>>
Mean(xs) == IF xs = <<>> THEN <<0, 1>> ELSE <<SeqSum(xs), Len(xs)>>


\* render_dashboard, lines 372-378 and 399
GoalProgress(goals) == Mean([i \in DOMAIN goals |-> goals[i].progress])
ShadowProgress(shadows) == Mean([i \in DOMAIN shadows |-> shadows[i].score])
SovereignScore_weighted(pillars, goals, shadows) ==
    LET g == GoalProgress(goals)
        s == ShadowProgress(shadows)
    IN  <<g[1] * s[2] + s[1] * g[2], 2 * g[2] * s[2]>>
SovereignScore(pillars, goals, shadows) ==
    Mean([i \in DOMAIN pillars |-> pillars[i].score])

NoKpi == [none |-> TRUE]
DashboardKpi(pd, sd, gd) ==
    [sovereign |-> SovereignScore(pd["pillars"], gd["goals"], sd["shadows"]),
     goal |-> GoalProgress(gd["goals"]),
     shadow |-> ShadowProgress(sd["shadows"])]

\* render_goals line 554: goals.sort(key=(progress == 100, progress)), stable.
GoalKeyLess(a, b) ==
    \/ a.progress # 100 /\ b.progress = 100
    \/ (a.progress = 100) = (b.progress = 100) /\ a.progress < b.progress
InsertGoal(sorted, g) ==
    LET pos == Cardinality({i \in DOMAIN sorted : ~GoalKeyLess(g, sorted[i])})
    IN  SubSeq(sorted, 1, pos) \o <<g>> \o SubSeq(sorted, pos + 1, Len(sorted))
RECURSIVE SortGoals(_)
SortGoals(seq) ==
    IF seq = <<>> THEN <<>>
    ELSE InsertGoal(SortGoals(SubSeq(seq, 1, Len(seq) - 1)), seq[Len(seq)])

\* The script run on page p: render_goals re-sorts the list in place when
\* there are pillars and goals (lines 513-554).
GoalsRendered(p, pd, gd) ==
    IF p = "Goals" /\ pd["pillars"] # <<>> /\ gd["goals"] # <<>>
    THEN [gd EXCEPT !["goals"] = SortGoals(gd["goals"])]
    ELSE gd

\* Variables no page of the app changes by itself.
AppFrame ==
    /\ UNCHANGED <<chroma_client, collections, rag_log, saved>>
    /\ new_session' = FALSE

\* set_page, lines 316-318, and the script run that follows it.
set_page(p) ==
    /\ page' = p
    /\ goals_data' = GoalsRendered(p, pillars_data, goals_data)
    /\ kpi' = IF p = "Dashboard"
              THEN DashboardKpi(pillars_data, shadows_data, goals_data)
              ELSE NoKpi
    /\ UNCHANGED <<files, pillars_data, shadows_data, tasks_data, chat,
                   unsaved_changes, clock, edits>>
    /\ AppFrame

\* render_pillars_shadows, lines 465-478: the slider and the text area of
\* pillar i.
pillar_slider(i, new_score) ==
    /\ page = "Pillars & Shadows"
    /\ edits < MaxEdits
    /\ i \in DOMAIN pillars_data["pillars"]
    /\ new_score # pillars_data["pillars"][i].score
    /\ pillars_data' = [pillars_data EXCEPT !["pillars"][i].score = new_score]
    /\ unsaved_changes' = TRUE
    /\ edits' = edits + 1
    /\ UNCHANGED <<files, shadows_data, goals_data, tasks_data, chat, page, kpi, clock>>
    /\ AppFrame

pillar_focus(i, new_focus) ==
    /\ page = "Pillars & Shadows"
    /\ edits < MaxEdits
    /\ i \in DOMAIN pillars_data["pillars"]
    /\ new_focus # pillars_data["pillars"][i].focus
    /\ pillars_data' = [pillars_data EXCEPT !["pillars"][i].focus = new_focus]
    /\ unsaved_changes' = TRUE
    /\ edits' = edits + 1
    /\ UNCHANGED <<files, shadows_data, goals_data, tasks_data, chat, page, kpi, clock>>
    /\ AppFrame

\* render_pillars_shadows, lines 487-502: the same for shadow i.
\* line 498: shadow['score'] = new_score
shadow_slider_add(shadows, i, new_score) ==
    [shadows EXCEPT ![i].score = @ + new_score]
shadow_slider_set(shadows, i, new_score) ==
    [shadows EXCEPT ![i].score = new_score]

shadow_slider(i, new_score) ==
    /\ page = "Pillars & Shadows"
    /\ edits < MaxEdits
    /\ i \in DOMAIN shadows_data["shadows"]
    /\ new_score # shadows_data["shadows"][i].score
    /\ shadows_data' = [shadows_data EXCEPT
                           !["shadows"] = shadow_slider_set(@, i, new_score)]
    /\ unsaved_changes' = TRUE
    /\ edits' = edits + 1
    /\ UNCHANGED <<files, pillars_data, goals_data, tasks_data, chat, page, kpi, clock>>
    /\ AppFrame

shadow_focus(i, new_focus) ==
    /\ page = "Pillars & Shadows"
    /\ edits < MaxEdits
    /\ i \in DOMAIN shadows_data["shadows"]
    /\ new_focus # shadows_data["shadows"][i].focus
    /\ shadows_data' = [shadows_data EXCEPT !["shadows"][i].focus = new_focus]
    /\ unsaved_changes' = TRUE
    /\ edits' = edits + 1
    /\ UNCHANGED <<files, pillars_data, goals_data, tasks_data, chat, page, kpi, clock>>
    /\ AppFrame

\* render_goals, lines 518-541: the "Create Goal" form, then the list is
\* sorted and shown.
add_new_goal(name, pillar, deadline) ==
    /\ page = "Goals"
    /\ edits < MaxEdits
    /\ pillars_data["pillars"] # <<>>
    /\ \E i \in DOMAIN pillars_data["pillars"] : pillars_data["pillars"][i].name = pillar
    /\ LET goal == [id |-> clock, name |-> name, pillar |-> pillar, progress |-> 0,
                    deadline |-> deadline]
           appended == IF name # ""
                       THEN [goals_data EXCEPT !["goals"] = Append(@, goal)]
                       ELSE goals_data
       IN  goals_data' = GoalsRendered(page, pillars_data, appended)
    /\ unsaved_changes' = IF name # "" THEN TRUE ELSE unsaved_changes
    /\ clock' = IF name # "" THEN clock + 1 ELSE clock
    /\ edits' = IF name # "" THEN edits + 1 ELSE edits
    /\ UNCHANGED <<files, pillars_data, shadows_data, tasks_data, chat, page, kpi>>
    /\ AppFrame

\* next(j for j, x in enumerate(seq) if x[...] == ..., None), with 0 for None
FirstByName(seq, name) ==
    IF \E j \in DOMAIN seq : seq[j].name = name
    THEN CHOOSE j \in DOMAIN seq :
             seq[j].name = name /\ \A h \in 1..(j - 1) : seq[h].name # name
    ELSE 0
FirstById(seq, id) ==
    IF \E j \in DOMAIN seq : seq[j].id = id
    THEN CHOOSE j \in DOMAIN seq :
             seq[j].id = id /\ \A h \in 1..(j - 1) : seq[h].id # id
    ELSE 0

\* Where render_goals draws the widgets of the goal `id`: its position in the
\* list once line 554 has sorted it.
GoalPosition_unsorted(goals, id) == FirstById(goals, id)
GoalPosition(goals, id) == FirstById(SortGoals(goals), id)

\* render_goals, lines 554-567.  The user moves the slider shown for the goal
\* at position i of the list as the last run left it.  The run that follows
\* sorts the list; the slider, whose key is the goal's id, is then drawn at the
\* goal's new position and sets the progress of the goal there.
goal_slider_set(goals, i, new_progress) ==
    [goals EXCEPT ![i].progress = new_progress]

goal_slider(i, new_progress) ==
    /\ page = "Goals"
    /\ edits < MaxEdits
    /\ pillars_data["pillars"] # <<>>
    /\ i \in DOMAIN goals_data["goals"]
    /\ new_progress # goals_data["goals"][i].progress
    /\ LET sorted == SortGoals(goals_data["goals"])
       IN  goals_data' = [goals_data EXCEPT !["goals"] =
               goal_slider_set(sorted,
                   GoalPosition(goals_data["goals"], goals_data["goals"][i].id),
                   new_progress)]
    /\ unsaved_changes' = TRUE
    /\ edits' = edits + 1
    /\ UNCHANGED <<files, pillars_data, shadows_data, tasks_data, chat, page, kpi, clock>>
    /\ AppFrame

\* list.pop(i)
Pop(seq, i) == SubSeq(seq, 1, i - 1) \o SubSeq(seq, i + 1, Len(seq))

\* render_goals, lines 571-575: the delete button shown for the goal at
\* position i of the list as the last run left it.  The run that follows sorts
\* the list, finds the button (its key is the goal's id) at the goal's new
\* position, pops that position and reruns.
delete_goal(i) ==
    /\ page = "Goals"
    /\ edits < MaxEdits
    /\ pillars_data["pillars"] # <<>>
    /\ i \in DOMAIN goals_data["goals"]
    /\ LET sorted == SortGoals(goals_data["goals"])
       IN  goals_data' = GoalsRendered(page, pillars_data,
               [goals_data EXCEPT !["goals"] =
                   Pop(sorted, GoalPosition(goals_data["goals"],
                                            goals_data["goals"][i].id))])
    /\ unsaved_changes' = TRUE
    /\ edits' = edits + 1
    /\ UNCHANGED <<files, pillars_data, shadows_data, tasks_data, chat, page, kpi, clock>>
    /\ AppFrame

\* update_pillar_score, lines 590-601
BoostOf_flat(priority) == 1
BoostOf(priority) ==
    CASE priority = "P1" -> 3
      [] priority = "P2" -> 2
      [] priority = "P3" -> 1
      [] OTHER -> 0

BoostedScore_uncapped(score, boost) == score + boost
BoostedScore(score, boost) == IF score + boost < 100 THEN score + boost ELSE 100

UpdatePillarScore(pillars, pillar_name, priority) ==
    LET p_idx == FirstByName(pillars, pillar_name)
    IN  IF p_idx = 0 THEN pillars
        ELSE [pillars EXCEPT
                 ![p_idx].score = BoostedScore(pillars[p_idx].score, BoostOf(priority))]

\* render_tasks, lines 604-622: the "Create Task" form.
add_task(name, pillar, priority, due) ==
    /\ page = "Tasks"
    /\ edits < MaxEdits
    /\ pillars_data["pillars"] # <<>>
    /\ \E i \in DOMAIN pillars_data["pillars"] : pillars_data["pillars"][i].name = pillar
    /\ name # ""
    /\ tasks_data' = [tasks_data EXCEPT !["tasks"] =
                         Append(@, [id |-> clock, name |-> name, pillar |-> pillar,
                                    priority |-> priority, due |-> due,
                                    completed |-> FALSE])]
    /\ unsaved_changes' = TRUE
    /\ clock' = clock + 1
    /\ edits' = edits + 1
    /\ UNCHANGED <<files, pillars_data, shadows_data, goals_data, chat, page, kpi>>
    /\ AppFrame

\* render_tasks, lines 668-674: the delete button of the active task shown
\* for tasks[j].
delete_task(j) ==
    /\ page = "Tasks"
    /\ edits < MaxEdits
    /\ pillars_data["pillars"] # <<>>
    /\ j \in DOMAIN tasks_data["tasks"]
    /\ ~tasks_data["tasks"][j].completed
    /\ LET task_index == FirstById(tasks_data["tasks"], tasks_data["tasks"][j].id)
       IN  tasks_data' = [tasks_data EXCEPT !["tasks"] = Pop(@, task_index)]
    /\ unsaved_changes' = TRUE
    /\ edits' = edits + 1
    /\ UNCHANGED <<files, pillars_data, shadows_data, goals_data, chat, page, kpi, clock>>
    /\ AppFrame

\* render_tasks, lines 676-681: the checkbox of the active task shown for
\* tasks[j] is ticked.
complete_task(j) ==
    /\ page = "Tasks"
    /\ edits < MaxEdits
    /\ pillars_data["pillars"] # <<>>
    /\ j \in DOMAIN tasks_data["tasks"]
    /\ ~tasks_data["tasks"][j].completed
    /\ LET t_idx == FirstById(tasks_data["tasks"], tasks_data["tasks"][j].id)
           t == tasks_data["tasks"][t_idx]
       IN  /\ tasks_data' = [tasks_data EXCEPT !["tasks"][t_idx].completed = TRUE]
           /\ pillars_data' = [pillars_data EXCEPT !["pillars"] =
                                  UpdatePillarScore(@, t.pillar, t.priority)]
           /\ unsaved_changes' =
                 IF FirstByName(pillars_data["pillars"], t.pillar) # 0
                 THEN TRUE ELSE unsaved_changes
    /\ edits' = edits + 1
    /\ UNCHANGED <<files, shadows_data, goals_data, chat, page, kpi, clock>>
    /\ AppFrame

\* save_all_data, lines 149-186, run as the on_click callback of the sidebar
\* button, followed by the script run.  failed_at = 0: every file is written;
\* failed_at = k > 0: the k-th open/json.dump raises, the files before it are
\* written, the k-th is left as it was or truncated, the rest are untouched.
FilesAfterSave(fs, failed_at, truncated, pd, sd, gd, td, ch) ==
    [f \in FileNames |->
        LET k == CHOOSE i \in DOMAIN SaveOrder : SaveOrder[i] = f
        IN  IF failed_at = 0 \/ k < failed_at
            THEN SavedContent(f, pd, sd, gd, td, ch)
            ELSE IF k = failed_at /\ truncated THEN FileInvalid
            ELSE fs[f]]

save_all_data(failed_at, truncated) ==
    /\ files' = FilesAfterSave(files, failed_at, truncated, pillars_data,
                               shadows_data, goals_data, tasks_data, chat)
    /\ unsaved_changes' = IF failed_at = 0 THEN FALSE ELSE unsaved_changes
    /\ saved' = IF failed_at = 0
                THEN SessionData(pillars_data, shadows_data, goals_data,
                                 tasks_data, chat)
                ELSE NothingSaved
    /\ goals_data' = GoalsRendered(page, pillars_data, goals_data)
    /\ UNCHANGED <<pillars_data, shadows_data, tasks_data, chat, page, kpi,
                   chroma_client, collections, rag_log, clock, edits>>
    /\ new_session' = FALSE

\* A new browser session: initialize_session_state, lines 196-270, then the
\* Dashboard is rendered.
initialize_session_state(writable) ==
    /\ ~new_session
    /\ new_session' = TRUE
    /\ pillars_data' = Loaded(files).pillars_data
    /\ shadows_data' = Loaded(files).shadows_data
    /\ goals_data' = Loaded(files).goals_data
    /\ tasks_data' = Loaded(files).tasks_data
    /\ chat' = Loaded(files).chat
    /\ files' = FilesAfterInit(files, writable)
    /\ page' = "Dashboard"
    /\ unsaved_changes' = FALSE
    /\ kpi' = DashboardKpi(Loaded(files).pillars_data, Loaded(files).shadows_data,
                           Loaded(files).goals_data)
    /\ rag_log' = <<>>
    /\ UNCHANGED <<chroma_client, collections, clock, edits, saved>>

\* What run_async_ai_call can hand back to a chat panel (lines 880-893 and
\* the returns of call_gemini_api).
AiResults(use_search) ==
    {KeyMissingResult, SecretsErrorResult, NoTextResult, RetriesFailedResult,
     UnexpectedResult, WrapperErrorResult}
        \cup {ReplyResult(use_search, grounded) : grounded \in BOOLEAN}

\* The plain chat pages, lines 1053-1078.
ChatHistoryKey(p) ==
    CASE p = "V3 Advisor" -> "v3_advisor_history"
      [] p = "Super AI" -> "super_ai_history"
      [] p = "BOL Academy" -> "bol_academy_history"

\* The RAG coach pages, lines 1080-1106.
CoachPages == {"Business Coach", "Health Coach", "Energy & Somatic Coach"}
CoachHistoryKey(p) ==
    CASE p = "Business Coach" -> "business_coach_history"
      [] p = "Health Coach" -> "health_coach_history"
      [] p = "Energy & Somatic Coach" -> "energy_somatic_history"
CoachCollection(p) ==
    CASE p = "Business Coach" -> "business_coach_notes"
      [] p = "Health Coach" -> "health_coach_notes"
      [] p = "Energy & Somatic Coach" -> "energy_somatic_notes"
CollectionNames == {CoachCollection(p) : p \in CoachPages}

NoCollection == [exists |-> FALSE, documents |-> <<>>]

MaxDocs == 2
NResults == 5

UserMessage(user_query) == [role |-> "user", text |-> user_query, is_user |-> TRUE]
AssistantMessage(text) == [role |-> "model", text |-> text, is_user |-> FALSE]

\* render_chat_interface, lines 916-933: a query is submitted on page p and
\* the model answers with ai_response_dict.
chat_submit(p, user_query, ai_response_dict) ==
    /\ page = p
    /\ p \in {"V3 Advisor", "Super AI", "BOL Academy"}
    /\ edits < MaxEdits
    /\ ai_response_dict \in AiResults(p # "BOL Academy")
    /\ chat' = [chat EXCEPT ![ChatHistoryKey(p)] =
                   Append(Append(@, UserMessage(user_query)),
                          AssistantMessage(ai_response_dict.text))]
    /\ edits' = edits + 1
    /\ UNCHANGED <<files, pillars_data, shadows_data, goals_data, tasks_data, page,
                   unsaved_changes, kpi, clock>>
    /\ AppFrame

\* collection.query(query_texts=[q], n_results=n)['documents'][0]: the n
\* nearest documents (all of them when there are fewer), nearest first; which
\* are nearest is the vector store's business.
TopDocs(documents, n) ==
    LET m == IF Len(documents) < n THEN Len(documents) ELSE n
    IN  {[i \in 1..m |-> documents[pick[i]]] :
            pick \in {f \in [1..m -> DOMAIN documents] :
                         \A i, j \in 1..m : i # j => f[i] # f[j]}}

\* lines 993-1004: the part of the system prompt that carries the notes
KnowledgePrompt_none(knowledge_chunks) == [found |-> FALSE, knowledge |-> <<>>]
KnowledgePrompt(knowledge_chunks) ==
    IF knowledge_chunks # <<>>
    THEN [found |-> TRUE, knowledge |-> knowledge_chunks]
    ELSE [found |-> FALSE, knowledge |-> <<>>]

\* lines 1007-1020
FinalSystemPrompt(p, knowledge_chunks) ==
    [base |-> p, knowledge_prompt |-> KnowledgePrompt(knowledge_chunks)]

\* render_rag_chat_interface, lines 976-1048, when the similarity query
\* answers with knowledge_chunks.
rag_chat_answered(p, user_query, knowledge_chunks, ai_response_dict) ==
    /\ page = p
    /\ p \in CoachPages
    /\ chroma_client
    /\ collections[CoachCollection(p)].exists
    /\ edits < MaxEdits
    /\ knowledge_chunks \in TopDocs(collections[CoachCollection(p)].documents, NResults)
    /\ ai_response_dict \in AiResults(TRUE)
    /\ LET history == Append(chat[CoachHistoryKey(p)], UserMessage(user_query))
       IN  /\ rag_log' = rag_log \o
                 << [op |-> "query", collection |-> CoachCollection(p),
                     query_texts |-> <<user_query>>, n_results |-> NResults,
                     documents |-> knowledge_chunks],
                    [op |-> "generate", history |-> history,
                     system_prompt |-> FinalSystemPrompt(p, knowledge_chunks),
                     use_search |-> TRUE] >>
           /\ chat' = [chat EXCEPT ![CoachHistoryKey(p)] =
                          Append(history, AssistantMessage(ai_response_dict.text))]
    /\ edits' = edits + 1
    /\ UNCHANGED <<files, pillars_data, shadows_data, goals_data, tasks_data, page,
                   unsaved_changes, kpi, chroma_client, collections, clock,
                   saved>>
    /\ new_session' = FALSE

\* render_rag_chat_interface, lines 1038-1045: the similarity query raises.
rag_chat_query_failed(p, user_query) ==
    /\ page = p
    /\ p \in CoachPages
    /\ chroma_client
    /\ collections[CoachCollection(p)].exists
    /\ edits < MaxEdits
    /\ rag_log' = Append(rag_log, [op |-> "query_raised",
                                   collection |-> CoachCollection(p),
                                   query_texts |-> <<user_query>>,
                                   n_results |-> NResults])
    /\ chat' = [chat EXCEPT ![CoachHistoryKey(p)] =
                   Append(Append(@, UserMessage(user_query)),
                          AssistantMessage("Sorry, I encountered an error"))]
    /\ edits' = edits + 1
    /\ UNCHANGED <<files, pillars_data, shadows_data, goals_data, tasks_data, page,
                   unsaved_changes, kpi, chroma_client, collections, clock,
                   saved>>
    /\ new_session' = FALSE

\* render_ingest_data, lines 712-785: the "Ingest Notes" form.  added = FALSE:
\* collection.add raises after get_or_create_collection made the collection.
ingest(collection_name, chunks, added) ==
    /\ page = "Ingest Data"
    /\ chroma_client
    /\ edits < MaxEdits
    /\ chunks # <<>>
    /\ Len(collections[collection_name].documents) + Len(chunks) <= MaxDocs
    /\ collections' = [collections EXCEPT ![collection_name] =
                          [exists |-> TRUE,
                           documents |-> IF added THEN @.documents \o chunks
                                         ELSE @.documents]]
    /\ edits' = edits + 1
    /\ UNCHANGED <<files, pillars_data, shadows_data, goals_data, tasks_data, chat,
                   page, unsaved_changes, kpi, chroma_client, rag_log, clock,
                   saved>>
    /\ new_session' = FALSE

\* Values of the inputs the pages take.
SliderValues == {SliderMin, SliderMax}

\* Data directories a session can find at start-up.
SmallDisk ==
    [f \in FileNames |->
        SavedContent(f,
            [pillars |-> << [name |-> "Health", score |-> 98, focus |-> "body"] >>],
            [shadows |-> << [name |-> "Self-Doubt", score |-> 30, focus |-> "act"] >>],
            [goals |-> << [id |-> 1, name |-> "Run", pillar |-> "Health",
                           progress |-> 100, deadline |-> "2026-01-01"] >>],
            [tasks |-> << [id |-> 2, name |-> "Stretch", pillar |-> "Health",
                           priority |-> "P1", due |-> "2026-01-01",
                           completed |-> FALSE] >>],
            [k \in HistoryKeys |-> DefaultHistory(k)])]
EmptyDisk == [f \in FileNames |-> FileMissing]
\* Files saved by a session with two pillars, two goals whose order is not
\* the order of their progress, and three active tasks.
BusyDisk ==
    [f \in FileNames |->
        SavedContent(f,
            [pillars |-> << [name |-> "Health", score |-> 99, focus |-> "body"],
                            [name |-> "Wealth", score |-> 50, focus |-> "money"] >>],
            [shadows |-> << [name |-> "Self-Doubt", score |-> 30, focus |-> "act"] >>],
            [goals |-> << [id |-> 11, name |-> "Save", pillar |-> "Wealth",
                           progress |-> 80, deadline |-> "2026-01-01"],
                          [id |-> 12, name |-> "Run", pillar |-> "Health",
                           progress |-> 20, deadline |-> "2026-01-01"] >>],
            [tasks |-> << [id |-> 13, name |-> "Invoice", pillar |-> "Wealth",
                           priority |-> "P2", due |-> "2026-01-01",
                           completed |-> FALSE],
                          [id |-> 14, name |-> "Walk", pillar |-> "Health",
                           priority |-> "P3", due |-> "2026-01-01",
                           completed |-> FALSE],
                          [id |-> 15, name |-> "Sleep", pillar |-> "Health",
                           priority |-> "P1", due |-> "2026-01-01",
                           completed |-> FALSE] >>],
            [k \in HistoryKeys |-> DefaultHistory(k)])]
Disks == {SmallDisk, EmptyDisk}


AppIdle ==
    /\ files = EmptyDisk
    /\ pillars_data = [pillars |-> <<>>]
    /\ shadows_data = [shadows |-> <<>>]
    /\ goals_data = [goals |-> <<>>]
    /\ tasks_data = [tasks |-> <<>>]
    /\ chat = [k \in HistoryKeys |-> <<>>]
    /\ page = "Dashboard"
    /\ unsaved_changes = FALSE
    /\ kpi = NoKpi
    /\ chroma_client = FALSE
    /\ collections = [c \in CollectionNames |-> NoCollection]
    /\ rag_log = <<>>
    /\ clock = 0
    /\ edits = 0
    /\ new_session = TRUE
    /\ saved = NothingSaved

-----------------------------------------------------------------------------
(***************************************************************************)
(* daily_operations_backup.py: the operations of a day and its log         *)
(***************************************************************************)

MaxLogs == 1

\* DAILY_OPERATIONS, lines 24-165: the phases in order and their operations.
PhaseIds == <<"morning_sequence", "strategic_leverage", "embodiment_integration",
              "sovereignty_consolidation">>
DAILY_OPERATIONS ==
    [morning_sequence |->
         <<"ignition_command", "physical_embodiment", "sovereign_sanctuary",
           "fueling_financial">>,
     strategic_leverage |->
         <<"deep_work_alpha", "v3_morning_check", "deep_work_execution">>,
     embodiment_integration |->
         <<"movement_flow", "refuel_integration", "engagement_strategy">>,
     sovereignty_consolidation |->
         <<"synthesis_learning", "boundary_enforcement", "connection_practice",
           "shadow_review", "shutdown_sequence">>]

OperationsOf(phase_id) ==
    {DAILY_OPERATIONS[phase_id][i] : i \in DOMAIN DAILY_OPERATIONS[phase_id]}
OpIds == UNION {OperationsOf(PhaseIds[i]) : i \in DOMAIN PhaseIds}

\* initialize_daily_ops_data, lines 182-198
DefaultOperationalState ==
    [current_operational_day |-> 0,
     phase_completion_streaks |->
         [morning_sequence |-> 0, strategic_leverage |-> 0,
          embodiment_integration |-> 0, sovereignty_consolidation |-> 0],
     mastery_metrics |->
         [ritual_consistency |-> 0, strategic_focus |-> 0, energy_management |-> 0,
          boundary_integrity |-> 0],
     current_phase |-> "morning_sequence"]

\* calculate_operational_state, lines 287-294
PhaseAt(current_hour) ==
    IF current_hour < 12 THEN "morning_sequence"
    ELSE IF current_hour < 17 THEN "strategic_leverage"
    ELSE IF current_hour < 21 THEN "embodiment_integration"
    ELSE "sovereignty_consolidation"

\* calculate_operational_state, lines 280-314
calculate_operational_state(file, current_hour) ==
    IF file \in {FileMissing, FileInvalid}
    THEN DefaultOperationalState
    ELSE [file EXCEPT !.current_phase = PhaseAt(current_hour)]

\* lines 436-443: the two counters of the loop over DAILY_OPERATIONS
TotalOperations ==
    SeqSum([i \in DOMAIN PhaseIds |-> Len(DAILY_OPERATIONS[PhaseIds[i]])])
CompletedOperations(session) ==
    SeqSum([i \in DOMAIN PhaseIds |->
               Cardinality({j \in DOMAIN DAILY_OPERATIONS[PhaseIds[i]] :
                               session[DAILY_OPERATIONS[PhaseIds[i]][j]]})])

\* line 445, as the fraction <<numerator, denominator>>
CompletionRate(completed_operations, total_operations) ==
    IF total_operations > 0
    THEN <<completed_operations * 100, total_operations>>
    ELSE <<0, 1>>

\* line 454: completion_rate >= 80
SuccessfulDay_strict(completion_rate) == completion_rate[1] > 80 * completion_rate[2]
SuccessfulDay(completion_rate) == completion_rate[1] >= 80 * completion_rate[2]

\* lines 448-457
LoggedState(operational_state, sliders, completion_rate) ==
    LET assessed ==
            [operational_state EXCEPT
                !.mastery_metrics =
                    [ritual_consistency |-> sliders[1] * 10,
                     strategic_focus |-> sliders[2] * 10,
                     energy_management |-> sliders[3] * 10,
                     boundary_integrity |-> sliders[4] * 10]]
    IN  IF SuccessfulDay(completion_rate)
        THEN [assessed EXCEPT
                 !.current_operational_day = @ + 1,
                 !.phase_completion_streaks =
                     [phase_id \in DOMAIN @ |-> @[phase_id] + 1]]
        ELSE assessed


\* lines 371-373: the "Completed" checkbox of an operation of the active phase
completion_checkbox(op_id, current_hour) ==
    /\ op_id \in OperationsOf(PhaseAt(current_hour))
    /\ comp' = [comp EXCEPT ![op_id] = ~@]
    /\ UNCHANGED <<ops_file, ops_rows>>

\* lines 375-377 and 395-398: the "Execute" and "Complete" buttons
complete_button(op_id) ==
    /\ ~comp[op_id]
    /\ comp' = [comp EXCEPT ![op_id] = TRUE]
    /\ UNCHANGED <<ops_file, ops_rows>>

\* lines 434-482: the form "LOG OPERATIONAL DAY" is submitted
log_operational_day(current_hour, sliders) ==
    /\ ops_rows < MaxLogs
    /\ LET operational_state == calculate_operational_state(ops_file, current_hour)
           completion_rate == CompletionRate(CompletedOperations(comp),
                                             TotalOperations)
       IN  ops_file' = LoggedState(operational_state, sliders, completion_rate)
    /\ ops_rows' = ops_rows + 1
    /\ UNCHANGED comp

OpsIdle ==
    /\ comp = [op_id \in OpIds |-> FALSE]
    /\ ops_file = DefaultOperationalState
    /\ ops_rows = 0

-----------------------------------------------------------------------------
(***************************************************************************)
(* Start-up of the file-based apps: v3_command_center.py,                  *)
(* daily_operations_command.py, sovereign_os.py, daily_operations_backup.py*)
(***************************************************************************)

MaxStarts == 2
MaxWrites == 2

Apps == {"v3_command_center", "daily_operations_command", "sovereign_os",
         "daily_operations_backup"}

Absent == [t |-> "absent"]
Csv(columns, rows) == [t |-> "csv", columns |-> columns, rows |-> rows]
Json(value) == [t |-> "json", v |-> value]

\* The files each app initialises at start-up, in the order of its script.
InitOrder(app) ==
    CASE app = "v3_command_center" ->
             <<"daily_log.csv", "business.csv", "shadows.json", "pillars.json">>
      [] app = "daily_operations_command" ->
             <<"daily_log.csv", "business.csv", "shadows.json", "pillars.json",
               "outreach.csv">>
      [] app = "sovereign_os" ->
             <<"shadow_dossiers.json", "daily_metrics.csv", "business.csv">>
      [] app = "daily_operations_backup" ->
             <<"daily_ops_log.csv", "operational_state.json">>

AppFiles(app) == {InitOrder(app)[i] : i \in DOMAIN InitOrder(app)}
DataFiles == UNION {AppFiles(app) : app \in Apps}

\* What each app writes into a file it creates.
DefaultContent(app, f, today) ==
    CASE f = "daily_log.csv" ->
             Csv(<<"Date", "Focus_Score", "Energy_Score", "Business_Progress",
                   "Notes">>, <<>>)
      [] f = "business.csv" /\ app = "sovereign_os" ->
             Csv(<<"Date", "Revenue", "Active_Clients", "Pipeline_Value",
                   "Close_Rate">>, << <<today, 8450, 6, 24000, "0.42">> >>)
      [] f = "business.csv" /\ app # "sovereign_os" ->
             Csv(<<"Date", "Revenue", "Clients", "Pipeline">>,
                 << <<today, 8450, 6, 24000>> >>)
      [] f = "shadows.json" ->
             Json([s11 |-> [name |-> "Wounded Perfectionist", progress |-> 0],
                   s71 |-> [name |-> "Imposter Syndrome", progress |-> 0]])
      [] f = "pillars.json" -> Json("default_pillars")
      [] f = "outreach.csv" ->
             Csv(<<"Date", "Calls", "Emails", "LinkedIn", "Meetings", "Follow_Ups",
                   "Notes">>, <<>>)
      [] f = "shadow_dossiers.json" -> Json("shadow_data")
      [] f = "daily_metrics.csv" ->
             Csv(<<"Date", "Armored_Body_Rating", "Self_Judgment_Frequency",
                   "Shielding_Compliance", "Micro_Actions_Executed",
                   "Interoception_Score", "Pricing_Changes", "Boundary_Success",
                   "Creative_Stagnation", "Dissociation_Frequency", "V3_Alignment">>,
                 <<>>)
      [] f = "daily_ops_log.csv" ->
             Csv(<<"Date", "Operational_Phase", "Sovereignty_Score",
                   "Completion_Rate", "Strategic_Insights", "operations">>, <<>>)
      [] f = "operational_state.json" -> Json(DefaultOperationalState)

\* if not os.path.exists(f)
Missing_always(fs, f) == TRUE
Missing(fs, f) == fs[f] = Absent

\* The initialisation of an app on the directory fs.  stop_at = 0: the script
\* runs through; stop_at = k > 0: it stops with an error where the k-th file
\* of InitOrder would be handled.
Initialised(fs, app, today, stop_at) ==
    [f \in DataFiles |->
        IF /\ f \in AppFiles(app)
           /\ Missing(fs, f)
           /\ \/ stop_at = 0
              \/ \E k \in 1..(stop_at - 1) : InitOrder(app)[k] = f
        THEN DefaultContent(app, f, today)
        ELSE fs[f]]


\* The forms of each app that rewrite a file.
FormFiles(app) ==
    CASE app = "v3_command_center" ->
             {"daily_log.csv", "business.csv", "shadows.json", "pillars.json"}
      [] app = "daily_operations_command" ->
             {"daily_log.csv", "business.csv", "shadows.json", "pillars.json",
              "outreach.csv"}
      [] app = "sovereign_os" -> {"daily_metrics.csv"}
      [] app = "daily_operations_backup" ->
             {"daily_ops_log.csv", "operational_state.json"}

\* What a form leaves in the file: one more row, or the edited document.
Submitted(content) ==
    IF content.t = "csv"
    THEN [content EXCEPT !.rows = Append(@, <<"submitted">>)]
    ELSE Json("edited")

\* One run of an app's script up to the end of its initialisation.
start_app(app, today, stop_at) ==
    /\ starts < MaxStarts
    /\ stop_at \in 0..Len(InitOrder(app))
    /\ data_dir' = Initialised(data_dir, app, today, stop_at)
    /\ starts' = starts + 1
    /\ last_start' = [app |-> app, today |-> today]
    /\ UNCHANGED <<writes, style_css, css_shown>>

\* A form of the running app is submitted and rewrites file f.
submit_form(f) ==
    /\ writes < MaxWrites
    /\ last_start.app \in Apps
    /\ f \in FormFiles(last_start.app)
    /\ data_dir[f] # Absent
    /\ data_dir' = [data_dir EXCEPT ![f] = Submitted(@)]
    /\ writes' = writes + 1
    /\ UNCHANGED <<starts, last_start, style_css, css_shown>>

\* The user removes a file from data/.
remove_file(f) ==
    /\ writes < MaxWrites
    /\ data_dir[f] # Absent
    /\ data_dir' = [data_dir EXCEPT ![f] = Absent]
    /\ writes' = writes + 1
    /\ UNCHANGED <<starts, last_start, style_css, css_shown>>

\* What lines 60-62 write into style.css.
DummyCss == ".st-emotion-cache-12fmj8x { padding-top: 2rem; }"

\* One run of v3_command_center_v2.py.  Lines 60-64: open(style.css, 'w') and
\* write the dummy rule, any exception passed over (writable = FALSE: the
\* open fails and the file stays as it was).  Line 1141: load_css injects the
\* content of the file, or its built-in sheet when there is no file.  The
\* JSON files of this app live next to the script, not in data/.
start_v2(today, writable) ==
    /\ starts < MaxStarts
    /\ style_css' = IF writable THEN DummyCss ELSE style_css
    /\ css_shown' = IF style_css' = "absent" THEN "fallback" ELSE style_css'
    /\ starts' = starts + 1
    /\ last_start' = [app |-> "v3_command_center_v2", today |-> today]
    /\ UNCHANGED <<data_dir, writes>>

\* The user puts a style sheet of their own into style.css, or removes the file.
write_style(content) ==
    /\ writes < MaxWrites
    /\ content # style_css
    /\ style_css' = content
    /\ writes' = writes + 1
    /\ UNCHANGED <<data_dir, starts, last_start, css_shown>>

StartIdle ==
    /\ data_dir = [f \in DataFiles |-> Absent]
    /\ starts = 0
    /\ last_start = [app |-> "none", today |-> "none"]
    /\ writes = 0
    /\ style_css = "absent"
    /\ css_shown = "none"

-----------------------------------------------------------------------------
(***************************************************************************)
(* sovereign_os.py: the 90-day progress and the daily log form.  The form  *)
(* handlers of v3_command_center.py (daily_log) and                        *)
(* daily_operations_backup.py (daily_ops_log) follow the same three steps: *)
(* pd.read_csv, pd.concat with the new row, to_csv over the whole file.    *)
(***************************************************************************)

MaxRows == 91
MaxSubmits == 2
ProgramDays == 90
Phase1End == 30
Phase2End == 60

\* A file pd.read_csv raises on (removed, emptied or damaged).
Unreadable == [t |-> "unreadable"]

\* The day range each title of V3_SYSTEM announces.
V3_SYSTEM ==
    [phase_1 |-> [title_days |-> 1..30],
     phase_2 |-> [title_days |-> 31..60],
     phase_3 |-> [title_days |-> 61..90]]

\* The file after n earlier submissions: the header written by
\* initialize_v3_data and one row for each.
LoggedRows(n) ==
    [DefaultContent("sovereign_os", "daily_metrics.csv", "day 1")
        EXCEPT !.rows = [i \in 1..n |-> [by |-> 0, k |-> i]]]

V3Progress_strict(file) ==
    LET days_completed == IF Len(file.rows) < ProgramDays THEN Len(file.rows)
                          ELSE ProgramDays
    IN  IF file = Unreadable
        THEN [days_completed |-> 0, current_phase |-> "phase_1",
              completion_rate |-> <<0, 1>>]
        ELSE [days_completed |-> days_completed,
              current_phase |-> IF days_completed < Phase1End THEN "phase_1"
                                ELSE IF days_completed < Phase2End THEN "phase_2"
                                ELSE "phase_3",
              completion_rate |-> <<days_completed * 100, ProgramDays>>]

\* The dictionary calculate_v3_progress returns for a content of the file;
\* days_completed is min(len(df_daily), 90) and completion_rate is the
\* fraction <<numerator, denominator>>.
V3Progress(file) ==
    LET days_completed == IF Len(file.rows) < ProgramDays THEN Len(file.rows)
                          ELSE ProgramDays
    IN  IF file = Unreadable
        THEN [days_completed |-> 0, current_phase |-> "phase_1",
              completion_rate |-> <<0, 1>>]
        ELSE [days_completed |-> days_completed,
              current_phase |-> IF days_completed <= Phase1End THEN "phase_1"
                                ELSE IF days_completed <= Phase2End THEN "phase_2"
                                ELSE "phase_3",
              completion_rate |-> <<days_completed * 100, ProgramDays>>]

\* v3_progress = calculate_v3_progress(), at each run of the script
calculate_v3_progress ==
    /\ v3_progress' = V3Progress(metrics_csv)
    /\ UNCHANGED <<metrics_csv, form_pc, form_df, form_logged>>

\* "Log Sovereign Day" pressed in session s: df_daily = pd.read_csv(...), then
\* df_daily = pd.concat([df_daily, pd.DataFrame([new_row])]) in the memory of
\* the session.  A file that cannot be read raises; the handler reports it and
\* ends.
form_read_csv(s) ==
    /\ form_pc[s] = "idle"
    /\ Cardinality(form_logged) + Cardinality({t \in DOMAIN form_pc : form_pc[t] # "idle"})
          < MaxSubmits
    /\ IF metrics_csv = Unreadable
       THEN UNCHANGED <<form_pc, form_df>>
       ELSE /\ form_pc' = [form_pc EXCEPT ![s] = "concat"]
            /\ form_df' = [form_df EXCEPT ![s] =
                  [metrics_csv EXCEPT !.rows =
                      Append(@, [by |-> s, k |-> Cardinality(form_logged) + 1])]]
    /\ UNCHANGED <<metrics_csv, form_logged, v3_progress>>

\* df_daily.to_csv(DAILY_METRICS_CSV, index=False), then st.success
form_to_csv(s) ==
    /\ form_pc[s] = "concat"
    /\ metrics_csv' = form_df[s]
    /\ form_logged' = form_logged \cup {form_df[s].rows[Len(form_df[s].rows)]}
    /\ form_pc' = [form_pc EXCEPT ![s] = "idle"]
    /\ form_df' = [form_df EXCEPT ![s] = LoggedRows(0)]
    /\ UNCHANGED v3_progress

CsvIdle ==
    /\ metrics_csv = LoggedRows(0)
    /\ form_pc = [s \in {1, 2} |-> "idle"]
    /\ form_df = [s \in {1, 2} |-> LoggedRows(0)]
    /\ form_logged = {}
    /\ v3_progress = V3Progress(LoggedRows(0))

-----------------------------------------------------------------------------
(***************************************************************************)
(* daily_operations_command.py: the daily outreach tracker, lines 248-306  *)
(***************************************************************************)

MaxEntries == 8
MaxDay == 3
RecentRows == 7

\* Lines 286-306, when the file has rows: recent_outreach = outreach_df.tail(7)
\* and the four metrics; the two ratios are fractions <<numerator, denominator>>.
OutreachMetrics(rows) ==
    IF rows = <<>> THEN NoKpi
    ELSE
    LET first == IF Len(rows) > RecentRows THEN Len(rows) - RecentRows + 1 ELSE 1
        recent_outreach == SubSeq(rows, first, Len(rows))
        contacts == [i \in DOMAIN recent_outreach |->
                        recent_outreach[i].Calls + recent_outreach[i].Emails
                            + recent_outreach[i].LinkedIn]
        meetings == [i \in DOMAIN recent_outreach |-> recent_outreach[i].Meetings]
        follow_ups == [i \in DOMAIN recent_outreach |-> recent_outreach[i].Follow_Ups]
    IN  [avg_daily_contacts |-> <<SeqSum(contacts), Len(recent_outreach)>>,
         meeting_rate |-> IF SeqSum(contacts) > 0
                          THEN <<SeqSum(meetings) * 100, SeqSum(contacts)>>
                          ELSE <<0, 1>>,
         total_follow_ups |-> SeqSum(follow_ups),
         streak |-> Cardinality({i \in DOMAIN rows :
                        rows[i].Calls + rows[i].Emails + rows[i].LinkedIn > 0})]

\* The "daily_outreach" form is submitted (lines 256-283): a row dated today
\* is added to the file; the same run then shows the metrics.
log_outreach(calls, emails, linkedin, meetings, follow_ups) ==
    /\ Len(outreach_csv) < MaxEntries
    /\ outreach_csv' = Append(outreach_csv,
           [Date |-> out_today, Calls |-> calls, Emails |-> emails, LinkedIn |-> linkedin,
            Meetings |-> meetings, Follow_Ups |-> follow_ups])
    /\ outreach_kpi' = OutreachMetrics(outreach_csv')
    /\ UNCHANGED out_today

\* The app is opened on the next day: a run of the script with no form
\* submitted.
open_next_day ==
    /\ out_today < MaxDay
    /\ out_today' = out_today + 1
    /\ outreach_kpi' = OutreachMetrics(outreach_csv)
    /\ UNCHANGED outreach_csv

OutIdle ==
    /\ outreach_csv = <<>>
    /\ out_today = 1
    /\ outreach_kpi = NoKpi

-----------------------------------------------------------------------------
(***************************************************************************)
(* Specifications                                                          *)
(***************************************************************************)

InitGemini == GeminiIdle /\ LoadIdle /\ AppIdle /\ OpsIdle /\ StartIdle /\ CsvIdle /\ OutIdle

NextGemini ==
    \/ \E h \in Histories, s \in BOOLEAN, k \in SecretsOutcomes, l \in BOOLEAN :
           run_async_ai_call(h, s, k, l) /\ UNCHANGED <<loadVars, appVars, opsVars, startVars, csvVars, outVars>>
    \/ \E o \in HttpOutcomes, h \in {"none", "RequestException", "Exception"} :
           http_attempt(o, h) /\ UNCHANGED <<loadVars, appVars, opsVars, startVars, csvVars, outVars>>
    \/ backoff_elapsed /\ UNCHANGED <<loadVars, appVars, opsVars, startVars, csvVars, outVars>>
    \/ ai_call_returned /\ UNCHANGED <<loadVars, appVars, opsVars, startVars, csvVars, outVars>>

SpecGemini == InitGemini /\ [][NextGemini]_vars

\* The same, with the progress the code has: requests.post runs with
\* timeout=30 and so returns or raises, asyncio.sleep returns, and the caller
\* takes the dictionary.
SpecGeminiFair ==
    /\ SpecGemini
    /\ WF_vars(\E o \in HttpOutcomes, h \in {"none", "RequestException", "Exception"} :
                  http_attempt(o, h) /\ UNCHANGED <<loadVars, appVars, opsVars, startVars, csvVars, outVars>>)
    /\ WF_vars(backoff_elapsed /\ UNCHANGED <<loadVars, appVars, opsVars, startVars, csvVars, outVars>>)

InitLoad ==
    /\ GeminiIdle
    /\ AppIdle
    /\ OpsIdle
    /\ StartIdle
    /\ CsvIdle
    /\ OutIdle
    /\ ld_pc = "called"
    /\ ld_default \in LoadDefaults
    /\ ld_file \in LoadFiles
    /\ ld_file_after = ld_file
    /\ ld_result = <<>>

NextLoad == \E w \in BOOLEAN : load_data(w) /\ UNCHANGED <<gemVars, appVars, opsVars, startVars, csvVars, outVars>>

SpecLoad == InitLoad /\ [][NextLoad]_vars

\* The v3_command_center_v2 app: the first session has just run
\* initialize_session_state on one of the data directories and shows the
\* Dashboard.
SessionStarted(disk) ==
    /\ files = FilesAfterInit(disk, TRUE)
    /\ pillars_data = Loaded(disk).pillars_data
    /\ shadows_data = Loaded(disk).shadows_data
    /\ goals_data = Loaded(disk).goals_data
    /\ tasks_data = Loaded(disk).tasks_data
    /\ chat = Loaded(disk).chat
    /\ kpi = DashboardKpi(Loaded(disk).pillars_data, Loaded(disk).shadows_data, Loaded(disk).goals_data)
    /\ page = "Dashboard"
    /\ unsaved_changes = FALSE
    /\ rag_log = <<>>
    /\ clock = 3
    /\ edits = 0
    /\ new_session = TRUE
    /\ saved = NothingSaved

InitApp ==
    /\ GeminiIdle
    /\ LoadIdle
    /\ OpsIdle
    /\ StartIdle
    /\ CsvIdle
    /\ OutIdle
    /\ \E disk \in Disks : SessionStarted(disk)
    /\ chroma_client = FALSE
    /\ collections = [c \in CollectionNames |-> NoCollection]

NextApp ==
    \/ \E p \in {"Dashboard", "Pillars & Shadows", "Goals", "Tasks",
                "BOL Academy"} : set_page(p) /\ UNCHANGED <<gemVars, loadVars, opsVars, startVars, csvVars, outVars>>
    \/ \E i \in 1..4, v \in SliderValues :
           pillar_slider(i, v) /\ UNCHANGED <<gemVars, loadVars, opsVars, startVars, csvVars, outVars>>
    \/ \E i \in 1..4, t \in {"edited focus"} :
           pillar_focus(i, t) /\ UNCHANGED <<gemVars, loadVars, opsVars, startVars, csvVars, outVars>>
    \/ \E i \in 1..2, v \in SliderValues :
           shadow_slider(i, v) /\ UNCHANGED <<gemVars, loadVars, opsVars, startVars, csvVars, outVars>>
    \/ \E i \in 1..2, t \in {"edited focus"} :
           shadow_focus(i, t) /\ UNCHANGED <<gemVars, loadVars, opsVars, startVars, csvVars, outVars>>
    \/ \E n \in {"", "Ship"}, i \in 1..2, d \in {"2026-01-01"} :
           /\ i \in DOMAIN pillars_data["pillars"]
           /\ add_new_goal(n, pillars_data["pillars"][i].name, d)
           /\ UNCHANGED <<gemVars, loadVars, opsVars, startVars, csvVars, outVars>>
    \/ \E i \in 1..(MaxEdits + 1), v \in SliderValues :
           goal_slider(i, v) /\ UNCHANGED <<gemVars, loadVars, opsVars, startVars, csvVars, outVars>>
    \/ \E i \in 1..(MaxEdits + 1) : delete_goal(i) /\ UNCHANGED <<gemVars, loadVars, opsVars, startVars, csvVars, outVars>>
    \/ \E n \in {"Call"}, i \in 1..2, pr \in {"P1", "P2", "P3"}, d \in {"2026-01-01"} :
           /\ i \in DOMAIN pillars_data["pillars"]
           /\ add_task(n, pillars_data["pillars"][i].name, pr, d)
           /\ UNCHANGED <<gemVars, loadVars, opsVars, startVars, csvVars, outVars>>
    \/ \E j \in 1..(MaxEdits + 1) : delete_task(j) /\ UNCHANGED <<gemVars, loadVars, opsVars, startVars, csvVars, outVars>>
    \/ \E j \in 1..(MaxEdits + 1) : complete_task(j) /\ UNCHANGED <<gemVars, loadVars, opsVars, startVars, csvVars, outVars>>
    \/ \E k \in {0, 2}, tr \in BOOLEAN :
           /\ k = 0 => ~tr
           /\ save_all_data(k, tr)
           /\ UNCHANGED <<gemVars, loadVars, opsVars, startVars, csvVars, outVars>>
    \/ \E w \in BOOLEAN : initialize_session_state(w) /\ UNCHANGED <<gemVars, loadVars, opsVars, startVars, csvVars, outVars>>
    \/ \E r \in {ReplyResult(FALSE, TRUE)} :
           chat_submit("BOL Academy", "question", r) /\ UNCHANGED <<gemVars, loadVars, opsVars, startVars, csvVars, outVars>>

SpecApp == InitApp /\ [][NextApp]_vars

\* The same app, used for its chat panels.
NextRag ==
    \/ \E p \in CoachPages \cup {"V3 Advisor", "Ingest Data"} : set_page(p) /\ UNCHANGED <<gemVars, loadVars, opsVars, startVars, csvVars, outVars>>
    \/ \E q \in {"question"}, r \in AiResults(TRUE) :
           chat_submit("V3 Advisor", q, r) /\ UNCHANGED <<gemVars, loadVars, opsVars, startVars, csvVars, outVars>>
    \/ \E p \in CoachPages, q \in {"question"}, r \in AiResults(TRUE) :
           \E kc \in TopDocs(collections[CoachCollection(p)].documents, NResults) :
               rag_chat_answered(p, q, kc, r) /\ UNCHANGED <<gemVars, loadVars, opsVars, startVars, csvVars, outVars>>
    \/ \E p \in CoachPages, q \in {"question"} :
           rag_chat_query_failed(p, q) /\ UNCHANGED <<gemVars, loadVars, opsVars, startVars, csvVars, outVars>>
    \/ \E c \in CollectionNames, n \in {"note A", "note B"}, a \in BOOLEAN :
           ingest(c, <<n>>, a) /\ UNCHANGED <<gemVars, loadVars, opsVars, startVars, csvVars, outVars>>

InitRag ==
    /\ GeminiIdle
    /\ LoadIdle
    /\ OpsIdle
    /\ StartIdle
    /\ CsvIdle
    /\ OutIdle
    /\ SessionStarted(EmptyDisk)
    /\ chroma_client \in BOOLEAN
    /\ collections =
          [business_coach_notes |-> [exists |-> TRUE, documents |-> <<"note A">>],
           health_coach_notes |-> [exists |-> TRUE, documents |-> <<>>],
           energy_somatic_notes |-> NoCollection]

SpecRag == InitRag /\ [][NextRag]_vars

\* The Goals and Tasks pages of a session that loaded BusyDisk.  The session
\* starts on the Goals page, either as the page was first drawn or after the
\* slider of the first goal shown was moved to 100, which leaves the list in
\* an order that the next run changes.
InitGoalsTasks ==
    /\ GeminiIdle /\ LoadIdle /\ OpsIdle /\ StartIdle /\ CsvIdle /\ OutIdle
    /\ files = FilesAfterInit(BusyDisk, TRUE)
    /\ pillars_data = Loaded(BusyDisk).pillars_data
    /\ shadows_data = Loaded(BusyDisk).shadows_data
    /\ tasks_data = Loaded(BusyDisk).tasks_data
    /\ chat = Loaded(BusyDisk).chat
    /\ \E moved \in BOOLEAN :
          /\ goals_data =
                [goals |-> IF moved
                           THEN goal_slider_set(
                                    SortGoals(Loaded(BusyDisk).goals_data["goals"]), 1, 100)
                           ELSE SortGoals(Loaded(BusyDisk).goals_data["goals"])]
          /\ unsaved_changes = moved
    /\ page = "Goals"
    /\ kpi = NoKpi
    /\ rag_log = <<>>
    /\ clock = 3
    /\ edits = 0
    /\ new_session = FALSE
    /\ saved = NothingSaved
    /\ chroma_client = FALSE
    /\ collections = [c \in CollectionNames |-> NoCollection]

NextGoalsTasks ==
    \/ \E p \in {"Goals", "Tasks"} : set_page(p) /\ UNCHANGED <<gemVars, loadVars, opsVars, startVars, csvVars, outVars>>
    \/ \E i \in 1..2 :
           /\ i \in DOMAIN pillars_data["pillars"]
           /\ add_new_goal("Ship", pillars_data["pillars"][i].name, "2026-01-01")
           /\ UNCHANGED <<gemVars, loadVars, opsVars, startVars, csvVars, outVars>>
    \/ \E i \in 1..(MaxEdits + 2), v \in SliderValues \cup {50} :
           goal_slider(i, v) /\ UNCHANGED <<gemVars, loadVars, opsVars, startVars, csvVars, outVars>>
    \/ \E i \in 1..(MaxEdits + 2) : delete_goal(i) /\ UNCHANGED <<gemVars, loadVars, opsVars, startVars, csvVars, outVars>>
    \/ \E i \in 1..2, pr \in {"P1", "P2", "P3"} :
           /\ i \in DOMAIN pillars_data["pillars"]
           /\ add_task("Call", pillars_data["pillars"][i].name, pr, "2026-01-01")
           /\ UNCHANGED <<gemVars, loadVars, opsVars, startVars, csvVars, outVars>>
    \/ \E j \in 1..(MaxEdits + 3) : delete_task(j) /\ UNCHANGED <<gemVars, loadVars, opsVars, startVars, csvVars, outVars>>
    \/ \E j \in 1..(MaxEdits + 3) : complete_task(j) /\ UNCHANGED <<gemVars, loadVars, opsVars, startVars, csvVars, outVars>>
    \/ save_all_data(0, FALSE) /\ UNCHANGED <<gemVars, loadVars, opsVars, startVars, csvVars, outVars>>

SpecGoalsTasks == InitGoalsTasks /\ [][NextGoalsTasks]_vars

\* daily_operations_backup, from a fresh data directory and a new session.
InitOps == GeminiIdle /\ LoadIdle /\ AppIdle /\ StartIdle /\ OpsIdle /\ CsvIdle /\ OutIdle

NextOps ==
    \/ \E op_id \in OpIds, h \in {9, 22} :
           completion_checkbox(op_id, h)
               /\ UNCHANGED <<gemVars, loadVars, appVars, startVars, csvVars, outVars>>
    \/ \E op_id \in OpIds :
           complete_button(op_id) /\ UNCHANGED <<gemVars, loadVars, appVars, startVars, csvVars, outVars>>
    \/ \E h \in {9, 22}, sl \in {<<7, 5, 10, 3>>} :
           log_operational_day(h, sl)
               /\ UNCHANGED <<gemVars, loadVars, appVars, startVars, csvVars, outVars>>

SpecOps == InitOps /\ [][NextOps]_vars

\* The four file-based apps started on one data directory, empty at first.
InitStartup == GeminiIdle /\ LoadIdle /\ AppIdle /\ OpsIdle /\ StartIdle /\ CsvIdle /\ OutIdle

NextStartup ==
    \/ \E app \in Apps, d \in {"day 1", "day 2"}, k \in 0..5 :
           start_app(app, d, k) /\ UNCHANGED <<gemVars, loadVars, appVars, opsVars, csvVars, outVars>>
    \/ \E f \in DataFiles :
           submit_form(f) /\ UNCHANGED <<gemVars, loadVars, appVars, opsVars, csvVars, outVars>>
    \/ \E f \in DataFiles :
           remove_file(f) /\ UNCHANGED <<gemVars, loadVars, appVars, opsVars, csvVars, outVars>>
    \/ \E d \in {"day 1", "day 2"}, w \in BOOLEAN :
           start_v2(d, w) /\ UNCHANGED <<gemVars, loadVars, appVars, opsVars, csvVars, outVars>>
    \/ \E c \in {"absent", ".main { color: teal; }"} :
           write_style(c) /\ UNCHANGED <<gemVars, loadVars, appVars, opsVars, csvVars, outVars>>

SpecStartup == InitStartup /\ [][NextStartup]_vars

\* sovereign_os on a metrics file filled by earlier days (or damaged), with
\* two browser sessions whose submit handlers run step by step.
InitCsv ==
    /\ GeminiIdle /\ LoadIdle /\ AppIdle /\ OpsIdle /\ StartIdle /\ OutIdle
    /\ \E file \in {Unreadable} \cup {LoggedRows(n) : n \in 0..MaxRows} :
          /\ metrics_csv = file
          /\ v3_progress = V3Progress(file)
    /\ form_pc = [s \in {1, 2} |-> "idle"]
    /\ form_df = [s \in {1, 2} |-> LoggedRows(0)]
    /\ form_logged = {}

NextCsv ==
    \/ calculate_v3_progress /\ UNCHANGED <<gemVars, loadVars, appVars, opsVars, startVars, outVars>>
    \/ \E s \in {1, 2} : form_read_csv(s) /\ UNCHANGED <<gemVars, loadVars, appVars, opsVars, startVars, outVars>>
    \/ \E s \in {1, 2} : form_to_csv(s) /\ UNCHANGED <<gemVars, loadVars, appVars, opsVars, startVars, outVars>>

SpecCsv == InitCsv /\ [][NextCsv]_vars

\* daily_operations_command from an outreach file that holds only its header.
InitOutreach ==
    GeminiIdle /\ LoadIdle /\ AppIdle /\ OpsIdle /\ StartIdle /\ CsvIdle /\ OutIdle

NextOutreach ==
    \/ \E n \in {<<0, 0, 0, 0, 0>>, <<3, 2, 1, 1, 2>>} :
           /\ log_outreach(n[1], n[2], n[3], n[4], n[5])
           /\ UNCHANGED <<gemVars, loadVars, appVars, opsVars, startVars, csvVars>>
    \/ open_next_day /\ UNCHANGED <<gemVars, loadVars, appVars, opsVars, startVars, csvVars>>

SpecOutreach == InitOutreach /\ [][NextOutreach]_vars


-----------------------------------------------------------------------------
\* C1: whenever the call has ended, what the caller receives is a dictionary
\* holding both the 'text' key and the 'sources' key, whatever the outcome
\* (missing or unreadable key, reply, reply without text, transport failure
\* on every attempt, unexpected exception).
C1_ResultHasTextAndSources ==
    g_pc = "done" => {"text", "sources"} \subseteq DOMAIN g_result

\* The call ended through the handler of an unexpected exception.
C1_Witness ==
    g_pc = "done" /\ g_result = UnexpectedResult /\ g_requests >= 1

\* C2: at most 4 HTTP attempts per call; the k-th failed attempt (k = 0,1,2)
\* is followed by a wait of 2^k seconds before the next attempt, and the
\* fourth failure returns the retries-failed result with no further wait.
C2_RetryBackoff ==
    /\ g_requests <= 4
    /\ g_pc = "request" =>
          /\ g_requests = g_attempt
          /\ g_sleeps = SubSeq(<<1, 2, 4>>, 1, g_attempt)
    /\ g_pc = "backoff" =>
          /\ g_attempt \in 0..2
          /\ g_requests = g_attempt + 1
          /\ g_delay = <<1, 2, 4>>[g_attempt + 1]
          /\ g_sleeps = SubSeq(<<1, 2, 4>>, 1, g_attempt)
    /\ (g_pc = "done" /\ g_result = RetriesFailedResult) =>
          /\ g_requests = 4
          /\ g_sleeps = <<1, 2, 4>>
          /\ g_delay = 0

\* All four attempts failed with a transport error.
C2_Witness ==
    g_pc = "done" /\ g_result = RetriesFailedResult /\ Len(g_sleeps) = 3

\* C3 as the specification words it: the Sovereign Score on the dashboard is
\* a weighted average of the goal-completion percentage and the shadow-taming
\* percentage, so it lies between the smaller and the larger of the two.
C3_WeightedAverageOfGoalsAndShadows ==
    page = "Dashboard" =>
        LET s == kpi.sovereign
            g == kpi.goal
            h == kpi.shadow
        IN  \/ g[1] * s[2] <= s[1] * g[2] /\ s[1] * h[2] <= h[1] * s[2]
            \/ h[1] * s[2] <= s[1] * h[2] /\ s[1] * g[2] <= g[1] * s[2]

\* C3, as the code has it: the Sovereign Score on the dashboard is the
\* arithmetic mean of the pillar scores, 0 when there are no pillars; goals
\* and shadows do not enter it.
C3_SovereignScoreIsPillarMean ==
    page = "Dashboard" =>
        LET pillars == pillars_data["pillars"]
        IN  IF pillars = <<>>
            THEN kpi.sovereign[1] = 0
            ELSE kpi.sovereign[1] * Len(pillars)
                     = SeqSum([i \in DOMAIN pillars |-> pillars[i].score])
                           * kpi.sovereign[2]

\* The dashboard is shown again after an edit, with goals and shadows present.
C3_Witness ==
    /\ page = "Dashboard"
    /\ edits >= 1
    /\ goals_data["goals"] # <<>>
    /\ shadows_data["shadows"] # <<>>
    /\ kpi.sovereign[1] > 0

\* C4: in a RAG coach chat the similarity query on the coach's collection
\* comes before the call of the language model for the same question, and
\* that call receives the retrieved snippets in its system prompt and a
\* history whose last message is the user's question; each submitted question
\* is queried once.
C4_QueryBeforeModelCall ==
    /\ \A i \in DOMAIN rag_log :
          rag_log[i].op = "generate" =>
              /\ i > 1
              /\ rag_log[i - 1].op = "query"
              /\ rag_log[i - 1].collection = CoachCollection(rag_log[i].system_prompt.base)
              /\ rag_log[i].system_prompt.knowledge_prompt.knowledge
                     = rag_log[i - 1].documents
              /\ rag_log[i].history # <<>>
              /\ rag_log[i].history[Len(rag_log[i].history)]
                     = [role |-> "user", text |-> rag_log[i - 1].query_texts[1],
                        is_user |-> TRUE]
    /\ \A p \in CoachPages :
          Cardinality({j \in DOMAIN chat[CoachHistoryKey(p)] :
                          chat[CoachHistoryKey(p)][j].is_user})
              = Cardinality({i \in DOMAIN rag_log :
                                /\ rag_log[i].op \in {"query", "query_raised"}
                                /\ rag_log[i].collection = CoachCollection(p)})

\* A coach answered a question for which the collection returned a snippet.
C4_Witness ==
    \E i \in DOMAIN rag_log :
        /\ rag_log[i].op = "generate"
        /\ rag_log[i].system_prompt.knowledge_prompt.found
        /\ Len(chat[CoachHistoryKey(rag_log[i].system_prompt.base)]) = 3

\* C5: every pillar score is within 0..100, whatever sliders were moved and
\* whatever tasks were completed.
C5_PillarScoresInRange ==
    \A i \in DOMAIN pillars_data["pillars"] :
        /\ pillars_data["pillars"][i].score >= 0
        /\ pillars_data["pillars"][i].score <= 100

\* A P1 task of a pillar that stood at 98 was completed: the boost of 3 is cut
\* off at 100.
C5_Witness ==
    /\ Len(pillars_data["pillars"]) = 1
    /\ pillars_data["pillars"][1].score = 100
    /\ \E j \in DOMAIN tasks_data["tasks"] :
          /\ tasks_data["tasks"][j].completed
          /\ tasks_data["tasks"][j].priority = "P1"
    /\ ~new_session

\* C6: every shadow score is within 0..100, whatever the app did (sliders,
\* task completions, goal edits, saves, new sessions).
C6_ShadowScoresInRange ==
    \A i \in DOMAIN shadows_data["shadows"] :
        /\ shadows_data["shadows"][i].score >= 0
        /\ shadows_data["shadows"][i].score <= 100

\* A shadow slider was moved to the top of its range, the data were saved and
\* a new session read them back.
C6_Witness ==
    /\ new_session
    /\ saved # NothingSaved
    /\ edits = 1
    /\ Len(shadows_data["shadows"]) = 1
    /\ shadows_data["shadows"][1].score = 100

\* C7: load_data returns a dictionary with every key of default_data when the
\* file is missing, is not JSON, has a list or primitive root, or is a
\* dictionary lacking keys; for a dictionary root the file's value wins for
\* every key the file defines.
C7_LoadDataKeys ==
    ld_pc = "returned" =>
        /\ DOMAIN ld_default \subseteq DOMAIN ld_result
        /\ ld_file.t = "object" =>
              \A k \in DOMAIN ld_file.v :
                  k \in DOMAIN ld_result /\ ld_result[k] = ld_file.v[k].v
        /\ ld_file.t # "object" => ld_result = ld_default

\* A dictionary file that lacks one default key and redefines another.
C7_Witness ==
    /\ ld_pc = "returned"
    /\ ld_file.t = "object"
    /\ DOMAIN ld_default = {"a", "b"}
    /\ DOMAIN ld_file.v = {"b", "c"}
    /\ ld_result["b"] # ld_default["b"]

\* C8: when a new session starts after save_all_data has written every file,
\* the pillars, shadows, goals, tasks and the six chat histories it loads are
\* the values the session held when save_all_data ran.
C8_SaveLoadRoundTrip ==
    (new_session /\ saved # NothingSaved) =>
        SessionData(pillars_data, shadows_data, goals_data, tasks_data, chat) = saved

\* A session with a chat exchange was saved and a new session holds the
\* same data.
C8_Witness ==
    /\ new_session
    /\ saved # NothingSaved
    /\ SessionData(pillars_data, shadows_data, goals_data, tasks_data, chat) = saved
    /\ Len(chat["bol_academy_history"]) = 3
    /\ Len(chat["v3_advisor_history"]) = 1

\* C9: a start-up of any of the file-based apps leaves every existing file
\* of data/ as it is, and a file that appears during the start-up is one of
\* the app's own files, holding the app's default content.
C9_StartupPreservesData ==
    [][starts' # starts =>
          \A f \in DataFiles :
              /\ data_dir[f] # Absent => data_dir'[f] = data_dir[f]
              /\ (data_dir[f] = Absent /\ data_dir'[f] # Absent) =>
                    /\ f \in AppFiles(last_start'.app)
                    /\ data_dir'[f] = DefaultContent(last_start'.app, f,
                                                     last_start'.today)]_vars

\* business.csv was created on day 1 and got a row from a form; a start-up on
\* day 2 found it and, running to its end, left it as it was.
C9_Witness ==
    /\ starts = 2
    /\ last_start.today = "day 2"
    /\ last_start.app = "v3_command_center"
    /\ data_dir["pillars.json"] # Absent
    /\ data_dir["business.csv"] # Absent
    /\ data_dir["business.csv"].rows
           = << <<"day 1", 8450, 6, 24000>>, <<"submitted">> >>

\* C10: logging the operational day adds one to current_operational_day and
\* to each of the four phase streaks when at least 12 of the 15 operations
\* are marked completed, and leaves the five counters as they were otherwise.
C10_LogCounters ==
    [][ops_rows' # ops_rows =>
          LET before == calculate_operational_state(ops_file, 9)
              completed == Cardinality({op_id \in OpIds : comp[op_id]})
              step == IF completed >= 12 THEN 1 ELSE 0
          IN  /\ Cardinality(OpIds) = 15
              /\ ops_file'.current_operational_day
                     = before.current_operational_day + step
              /\ \A i \in 1..4 :
                    ops_file'.phase_completion_streaks[PhaseIds[i]]
                        = before.phase_completion_streaks[PhaseIds[i]] + step]_vars

\* A day with exactly 12 of the 15 operations completed has been logged.
C10_Witness ==
    /\ ops_rows = 1
    /\ Cardinality({op_id \in OpIds : comp[op_id]}) = 12
    /\ ops_file.current_operational_day = 1
    /\ ops_file.phase_completion_streaks["sovereignty_consolidation"] = 1

\* C11: calculate_v3_progress reports days_completed = min(number of logged
\* rows, 90); the phase is phase_1 for days 0..30, phase_2 for days 31..60 and
\* phase_3 for days 61..90, in agreement with the days the phase titles name;
\* completion_rate equals days_completed / 90 * 100 and lies within 0..100; a
\* file that cannot be read gives day 0, phase_1 and rate 0.  It is stated of
\* the value shown while no form has written, and of every newly computed value.
C11_Reported(file, p) ==
    IF file = Unreadable
    THEN /\ p.days_completed = 0
         /\ p.current_phase = "phase_1"
         /\ p.completion_rate[1] = 0
    ELSE /\ Len(file.rows) <= 90 => p.days_completed = Len(file.rows)
         /\ Len(file.rows) > 90 => p.days_completed = 90
         /\ p.days_completed \in 0..30 => p.current_phase = "phase_1"
         /\ p.days_completed \in 31..60 => p.current_phase = "phase_2"
         /\ p.days_completed \in 61..90 => p.current_phase = "phase_3"
         /\ p.days_completed >= 1 =>
                p.days_completed \in V3_SYSTEM[p.current_phase].title_days
         /\ p.completion_rate[1] * 90 = p.days_completed * 100 * p.completion_rate[2]
         /\ 0 <= p.completion_rate[1]
         /\ p.completion_rate[1] <= 100 * p.completion_rate[2]

C11_V3Progress ==
    /\ [](form_logged = {} /\ (\A s \in DOMAIN form_pc : form_pc[s] = "idle")
            => C11_Reported(metrics_csv, v3_progress))
    /\ [][v3_progress' # v3_progress => C11_Reported(metrics_csv', v3_progress')]_vars

\* A form has written the row that takes the file past 90 rows and the progress
\* computed after it is day 90 of phase_3.
C11_Witness ==
    /\ metrics_csv # Unreadable
    /\ Len(metrics_csv.rows) = 91
    /\ form_logged # {}
    /\ v3_progress.days_completed = 90
    /\ v3_progress.current_phase = "phase_3"
    /\ v3_progress.completion_rate = <<9000, 90>>

\* C17: no submitted row is lost under interleaving: once the handlers of two
\* sessions have written the same CSV file, the file holds the row of every
\* submission that has completed.
C17_NoRowLost ==
    metrics_csv # Unreadable =>
        \A r \in form_logged : \E i \in DOMAIN metrics_csv.rows : metrics_csv.rows[i] = r

\* C12: marking an active task completed adds 3, 2 or 1 points (priority P1,
\* P2, P3) to the score of the pillar the task is linked to, capped at 100,
\* and leaves every other pillar and every shadow as it was.
C12_CompletionBoost ==
    [][\A j \in DOMAIN tasks_data["tasks"] :
          (/\ edits' = edits + 1
           /\ Len(tasks_data'["tasks"]) = Len(tasks_data["tasks"])
           /\ ~tasks_data["tasks"][j].completed
           /\ tasks_data'["tasks"][j].completed)
          =>
          LET t == tasks_data["tasks"][j]
              points == CASE t.priority = "P1" -> 3
                          [] t.priority = "P2" -> 2
                          [] t.priority = "P3" -> 1
              old == pillars_data["pillars"]
              new == pillars_data'["pillars"]
          IN  /\ Len(new) = Len(old)
              /\ \A i \in DOMAIN old :
                    IF old[i].name = t.pillar
                    THEN /\ old[i].score + points <= 100 => new[i].score = old[i].score + points
                         /\ old[i].score + points > 100 => new[i].score = 100
                         /\ new[i].name = old[i].name
                         /\ new[i].focus = old[i].focus
                    ELSE new[i] = old[i]
              /\ shadows_data' = shadows_data]_vars

\* The P2 task of Wealth (50) and nothing else was completed: Wealth stands at
\* 52, Health at 99 and the shadow at 30.
C12_Witness ==
    /\ edits = 1
    /\ \E j \in DOMAIN tasks_data["tasks"] :
          /\ tasks_data["tasks"][j].completed
          /\ tasks_data["tasks"][j].priority = "P2"
          /\ tasks_data["tasks"][j].pillar = "Wealth"
    /\ pillars_data["pillars"][1].score = 99
    /\ pillars_data["pillars"][2].score = 52
    /\ shadows_data["shadows"][1].score = 30
    /\ unsaved_changes

\* C16: the delete button of a goal or of an active task removes exactly the
\* item it is shown for and leaves every other goal, task, pillar and shadow
\* as it was, also when the run that handles the button first re-sorts the
\* goals; the progress slider of a goal changes the progress of that goal only.
C16_DeleteAndSliderFrame ==
    [][/\ \A d \in DOMAIN goals_data["goals"] :
             delete_goal(d) =>
                /\ Len(goals_data'["goals"]) = Len(goals_data["goals"]) - 1
                /\ {goals_data'["goals"][k] : k \in DOMAIN goals_data'["goals"]}
                      = {goals_data["goals"][k] : k \in DOMAIN goals_data["goals"]}
                           \ {goals_data["goals"][d]}
                /\ tasks_data' = tasks_data
                /\ pillars_data' = pillars_data
                /\ shadows_data' = shadows_data
       /\ \A j \in DOMAIN tasks_data["tasks"] :
             delete_task(j) =>
                /\ Len(tasks_data'["tasks"]) = Len(tasks_data["tasks"]) - 1
                /\ {tasks_data'["tasks"][k] : k \in DOMAIN tasks_data'["tasks"]}
                      = {tasks_data["tasks"][k] : k \in DOMAIN tasks_data["tasks"]}
                           \ {tasks_data["tasks"][j]}
                /\ {goals_data'["goals"][k] : k \in DOMAIN goals_data'["goals"]}
                      = {goals_data["goals"][k] : k \in DOMAIN goals_data["goals"]}
                /\ pillars_data' = pillars_data
                /\ shadows_data' = shadows_data
       /\ \A d \in DOMAIN goals_data["goals"] :
             (\E v \in 0..100 : goal_slider(d, v)) =>
                /\ Len(goals_data'["goals"]) = Len(goals_data["goals"])
                /\ \A k \in DOMAIN goals_data["goals"] :
                      k # d => \E h \in DOMAIN goals_data'["goals"] :
                                   goals_data'["goals"][h] = goals_data["goals"][k]
                /\ \E h \in DOMAIN goals_data'["goals"] :
                      goals_data'["goals"][h] =
                         [goals_data["goals"][d] EXCEPT
                             !.progress = goals_data'["goals"][h].progress]
                /\ tasks_data' = tasks_data
                /\ pillars_data' = pillars_data
                /\ shadows_data' = shadows_data
      ]_vars

\* The slider of "Run" had been moved to 100, which left it first in a list
\* that the next run sorts behind "Save"; the delete button of "Save" was then
\* pressed, and "Run" alone is left.
C16_Witness ==
    /\ edits = 1
    /\ page = "Goals"
    /\ Len(goals_data["goals"]) = 1
    /\ goals_data["goals"][1].id = 12
    /\ goals_data["goals"][1].progress = 100
    /\ Len(tasks_data["tasks"]) = 3

\* C13: a start-up of v3_command_center_v2 creates the dummy style.css only
\* when it is needed: a style.css that exists keeps its content across
\* start-ups.
C13_StyleSheetKept ==
    [][(starts' # starts /\ style_css # "absent") => style_css' = style_css]_vars

\* C15: call_gemini_api terminates whatever the requests lead to; only a
\* RequestException is retried: a reply that passes the status check, and an
\* exception of any other kind, end the call at once with no further HTTP
\* request; with no API key no HTTP request is made at all.
C15_RetryOnlyTransportErrors ==
    /\ (g_pc = "request") ~> (g_pc = "done")
    /\ [](g_pc \in {"request", "backoff"} /\ g_requests > 0
             => g_last.handler = "RequestException")
    /\ [](g_last.outcome \in {"text", "text_grounded", "no_text", "invalid_json",
                               "Exception"}
             => g_pc = "done")
    /\ [](g_pc = "done" /\ g_result = KeyMissingResult => g_requests = 0)

\* C14: the outreach metrics shown are computed over the entries of the last 7
\* days (today and the 6 days before it): Avg Daily Contacts is the mean of
\* calls + emails + LinkedIn per entry, Meeting Rate is meetings / (calls +
\* emails + LinkedIn) * 100 over that window, or 0 when the window has no
\* contacts, and Active Follow-ups is the sum of the follow-ups.
C14_MetricsOverLastSevenDays ==
    LET rows == outreach_csv
        in_window(i) == out_today - rows[i].Date < 7
        window == {i \in DOMAIN rows : in_window(i)}
        contacts == SeqSum([i \in DOMAIN rows |->
                        IF in_window(i)
                        THEN rows[i].Calls + rows[i].Emails + rows[i].LinkedIn ELSE 0])
        meetings == SeqSum([i \in DOMAIN rows |->
                        IF in_window(i) THEN rows[i].Meetings ELSE 0])
        follow_ups == SeqSum([i \in DOMAIN rows |->
                        IF in_window(i) THEN rows[i].Follow_Ups ELSE 0])
    IN  outreach_kpi # NoKpi =>
           /\ outreach_kpi.avg_daily_contacts[1] * Cardinality(window)
                 = contacts * outreach_kpi.avg_daily_contacts[2]
           /\ IF contacts > 0
              THEN outreach_kpi.meeting_rate[1] * contacts
                      = meetings * 100 * outreach_kpi.meeting_rate[2]
              ELSE outreach_kpi.meeting_rate[1] = 0
           /\ outreach_kpi.total_follow_ups = follow_ups

====
